---------------------------- MODULE Spec2Model ----------------------------
(***************************************************************************)
(* A model of the measurement-info reader and writer of mne/fiff           *)
(* (meas_info.py: read_meas_info, write_meas_info) and of the CTF          *)
(* compensation reader (fiff/ctf.py: read_named_matrix, read_ctf_comp).    *)
(*                                                                         *)
(* One behaviour is one call.  Init draws the call and its input (a FIF    *)
(* tree to read, an info record to write and read back, or a node with     *)
(* compensation blocks); the actions are the consecutive sections of the   *)
(* called function.  A Python exception ends the call: err holds the name  *)
(* of the exception class and pc becomes "done".                           *)
(*                                                                         *)
(* Python's None is the empty sequence and a value v that may be None is   *)
(* the one-element sequence <<v>>.  Frequencies are fixed-point numbers in *)
(* units of 1/2 Hz, so that sfreq / 2.0 is exact for whole-Hz rates.       *)
(***************************************************************************)
EXTENDS Integers, Sequences, FiniteSets, TLC

\* ------------------------------------------------------------------ bounds
\* Most blocks of one type under a parent (measurement, info, HPI result,
\* isotrak).
MaxBlocks == 2
\* Most channel-info records in an info block's directory.
MaxChs == 2
\* Most digitization points in an isotrak block.
MaxDig == 2

\* ------------------------------------------------------------- None / Some
None == <<>>
Some(v) == <<v>>
IsNone(o) == o = <<>>
Val(o) == o[1]

\* i half-Hertz units for a rate of hz Hz
Hz(hz) == hz + hz

\* ---------------------------------------------------------------- the tree
\* A tree node: its block type, its ids, the tags directly in it (directory,
\* in file order; nent is Len(directory)) and its child blocks.
Node(block, id, parent_id, directory, children) ==
    [block |-> block, id |-> id, parent_id |-> parent_id,
     directory |-> directory, children |-> children]

\* A directory entry with the tag stored at its position: read_tag(fid, pos)
\* of the entry is the tag, whose data is .data.
Tag(kind, data) == [kind |-> kind, data |-> data]

RECURSIVE FlatMap(_, _, _)
\* dir_tree_find over a list of sibling nodes, in file order
FlatMap(nodes, block, i) ==
    IF i > Len(nodes) THEN <<>>
    ELSE LET n == nodes[i]
             self == IF n.block = block THEN <<n>> ELSE <<>>
         IN self \o FlatMap(n.children, block, 1) \o FlatMap(nodes, block, i + 1)

\* dir_tree_find(tree, kind): every node of the tree, the tree itself
\* included, whose block type is kind, in encounter (file) order
dir_tree_find(tree, block) == FlatMap(<<tree>>, block, 1)

\* The tree variable of a call that has no tree (yet): a file with no block
NoTree == Node("FIFFB_ROOT", None, None, <<>>, <<>>)

\* A coordinate transform record
Trans(from, to, trans) == [from |-> from, to |-> to, trans |-> trans]

\* A channel-info record
Ch(name, scanno) == [ch_name |-> name, scanno |-> scanno]

\* A block id
Id(secs) == [secs |-> secs, usecs |-> secs + 1]


\* An exception raised, or a value computed
Raise(e) == [err |-> e, val |-> None]
Ok(v) == [err |-> "none", val |-> v]

\* ------------------------------------------------- read_meas_info, by section
\* The locals the scan of the info block's directory fills (lines 57-65)
ScanInit ==
    [dev_head_t |-> None, ctf_head_t |-> None, meas_date |-> None,
     highpass |-> None, lowpass |-> None, nchan |-> None, sfreq |-> None,
     chs |-> <<>>]

\* The classification of a coordinate transform by its frames; any other
\* pair is dropped
ClassifyTrans(s, cand) ==
    IF cand.from = "FIFFV_COORD_DEVICE" /\ cand.to = "FIFFV_COORD_HEAD"
    THEN [s EXCEPT !.dev_head_t = Some(cand)]
    ELSE IF cand.from = "FIFFV_MNE_COORD_CTF_HEAD" /\ cand.to = "FIFFV_COORD_HEAD"
    THEN [s EXCEPT !.ctf_head_t = Some(cand)]
    ELSE s

\* One pass of the loop over the info block's directory
ScanEntry(s, e) ==
    CASE e.kind = "FIFF_NCHAN" -> [s EXCEPT !.nchan = Some(e.data)]
      [] e.kind = "FIFF_SFREQ" -> [s EXCEPT !.sfreq = Some(e.data)]
      [] e.kind = "FIFF_CH_INFO" -> [s EXCEPT !.chs = Append(@, e.data)]
      [] e.kind = "FIFF_LOWPASS" -> [s EXCEPT !.lowpass = Some(e.data)]
      [] e.kind = "FIFF_HIGHPASS" -> [s EXCEPT !.highpass = Some(e.data)]
      [] e.kind = "FIFF_MEAS_DATE" -> [s EXCEPT !.meas_date = Some(e.data)]
      [] e.kind = "FIFF_COORD_TRANS" -> ClassifyTrans(s, e.data)
      [] OTHER -> s

RECURSIVE ScanDir(_, _, _)
\* for k in range(meas_info.nent), from entry k on
ScanDir(s, directory, k) ==
    IF k > Len(directory) THEN s
    ELSE ScanDir(ScanEntry(s, directory[k]), directory, k + 1)

\* MandatoryError without the comparison of len(chs) with nchan
MandatoryError_NoCount(s) ==
    IF IsNone(s.nchan) THEN "ValueError"
    ELSE IF IsNone(s.sfreq) THEN "ValueError"
    ELSE IF Len(s.chs) = 0 THEN "ValueError"
    ELSE "none"

\* "Check that we have everything we need": the first check that fails
MandatoryError(s) ==
    IF IsNone(s.nchan) THEN "ValueError"
    ELSE IF IsNone(s.sfreq) THEN "ValueError"
    ELSE IF Len(s.chs) = 0 THEN "ValueError"
    ELSE IF Len(s.chs) # Val(s.nchan) THEN "ValueError"
    ELSE "none"

\* One pass of the loop over the HPI result block's directory
HpiEntry(s, e) ==
    IF e.kind = "FIFF_COORD_TRANS" THEN ClassifyTrans(s, e.data) ELSE s

RECURSIVE ScanHpi(_, _, _)
ScanHpi(s, directory, k) ==
    IF k > Len(directory) THEN s
    ELSE ScanHpi(HpiEntry(s, directory[k]), directory, k + 1)

\* HpiFallback that keeps a transform the direct scan found
HpiFallback_Keep(s, node) ==
    LET t == IF IsNone(s.dev_head_t) \/ IsNone(s.ctf_head_t)
             THEN LET hpi_result == dir_tree_find(node, "FIFFB_HPI_RESULT")
                  IN IF Len(hpi_result) = 1
                     THEN ScanHpi(s, hpi_result[1].directory, 1)
                     ELSE s
             ELSE s
    IN [s EXCEPT !.dev_head_t = IF IsNone(@) THEN t.dev_head_t ELSE @,
                 !.ctf_head_t = IF IsNone(@) THEN t.ctf_head_t ELSE @]

\* The transforms after the look into the HPI result block
HpiFallback(s, node) ==
    IF IsNone(s.dev_head_t) \/ IsNone(s.ctf_head_t)
    THEN LET hpi_result == dir_tree_find(node, "FIFFB_HPI_RESULT")
         IN IF Len(hpi_result) = 1
            THEN ScanHpi(s, hpi_result[1].directory, 1)
            ELSE s
    ELSE s

\* "Locate the Polhemus data": the isotrak node the code goes on with
LocateIsotrak(found) ==
    IF Len(found) # 0 THEN Ok(found[1])
    ELSE IF Len(found) = 0 THEN Raise("ValueError")
    ELSE IF Len(found) > 1 THEN Raise("ValueError")
    ELSE Ok(found)

RECURSIVE DigPoints(_, _)
\* The digitization points of a directory, each set to the head frame
DigPoints(directory, k) ==
    IF k > Len(directory) THEN <<>>
    ELSE LET e == directory[k]
         IN (IF e.kind = "FIFF_DIG_POINT"
             THEN <<[e.data EXCEPT !.coord_frame = "FIFFV_COORD_HEAD"]>>
             ELSE <<>>) \o DigPoints(directory, k + 1)

\* len(isotrak) of the isotrak NODE (isotrak = isotrak[0] came before): the
\* number of its fields when nodes are mappings, a TypeError when they are
\* plain objects
CollectDig(isotrak, nodes_sized) ==
    IF ~nodes_sized THEN Raise("TypeError")
    ELSE IF Cardinality(DOMAIN isotrak) = 1
         THEN Ok(DigPoints(isotrak.directory, 1))
         ELSE Ok(<<>>)

RECURSIVE LastOfKind(_, _, _, _)
\* The data of the last entry of a kind in a directory, or cur
LastOfKind(directory, kind, k, cur) ==
    IF k > Len(directory) THEN cur
    ELSE LastOfKind(directory, kind, k + 1,
                    IF directory[k].kind = kind THEN Some(directory[k].data) ELSE cur)

\* "Locate the acquisition information"
AcqPars(node) ==
    LET acqpars == dir_tree_find(node, "FIFFB_DACQ_PARS")
    IN IF Len(acqpars) = 1
       THEN [acq_pars |-> LastOfKind(acqpars[1].directory, "FIFF_DACQ_PARS", 1, None),
             acq_stim |-> LastOfKind(acqpars[1].directory, "FIFF_DACQ_STIM", 1, None)]
       ELSE [acq_pars |-> None, acq_stim |-> None]

RECURSIVE BlockData(_, _)
\* The data of the first tag of each block of a list
BlockData(nodes, i) ==
    IF i > Len(nodes) THEN <<>>
    ELSE (IF Len(nodes[i].directory) > 0 THEN <<nodes[i].directory[1].data>> ELSE <<>>)
         \o BlockData(nodes, i + 1)

\* read_proj: the projection items under the node
read_proj(node) == BlockData(dir_tree_find(node, "FIFFB_PROJ_ITEM"), 1)

\* read_ctf_comp of mne/fiff: the compensation records under the node
read_ctf_comp_info(node) == BlockData(dir_tree_find(node, "FIFFB_MNE_CTF_COMP_DATA"), 1)

\* _read_bad_channels: the name list of the bad-channel block, or no names
read_bad_channels(node) ==
    LET nodes == dir_tree_find(node, "FIFFB_MNE_BAD_CHANNELS")
        found == IF Len(nodes) > 0
                 THEN LastOfKind(nodes[1].directory, "FIFF_MNE_CH_NAME_LIST", 1, None)
                 ELSE None
    IN IF IsNone(found) THEN <<>> ELSE Val(found)

\* MeasIdOf with the info block's own id tried before its parent id
MeasIdOf_IdFirst(mi, m) ==
    IF ~IsNone(mi.id) THEN Ok(mi.id)
    ELSE IF ~IsNone(mi.parent_id) THEN Ok(mi.parent_id)
    ELSE IF ~IsNone(m.id) THEN Ok(m.id)
    ELSE IF ~IsNone(m.parent_id) THEN Ok(m.parent_id)
    ELSE Raise("AttributeError")

\* "Make the most appropriate selection for the measurement id".  info is a
\* built-in dict, so info.file_id raises AttributeError.
MeasIdOf(mi, m) ==
    IF IsNone(mi.parent_id)
    THEN IF IsNone(mi.id)
         THEN IF IsNone(m.id)
              THEN IF IsNone(m.parent_id)
                   THEN Raise("AttributeError")
                   ELSE Ok(m.parent_id)
              ELSE Ok(m.id)
         ELSE Ok(mi.id)
    ELSE Ok(mi.parent_id)

\* info['meas_date']
MeasDateOf(meas_date, meas_id) ==
    IF IsNone(meas_date)
    THEN Some(<<Val(meas_id).secs, Val(meas_id).usecs>>)
    ELSE meas_date

\* info['highpass']
HighpassOf(highpass) == IF ~IsNone(highpass) THEN Val(highpass) ELSE 0

\* LowpassOf with the sampling rate itself as the default
LowpassOf_Full(lowpass, sfreq) == IF ~IsNone(lowpass) THEN Val(lowpass) ELSE sfreq

\* info['lowpass']: info['sfreq'] / 2.0 in half-Hertz units
LowpassOf(lowpass, sfreq) == IF ~IsNone(lowpass) THEN Val(lowpass) ELSE sfreq \div 2

RECURSIVE ChNames(_, _)
\* [ch.ch_name for ch in chs]
ChNames(chs, i) ==
    IF i > Len(chs) THEN <<>> ELSE <<chs[i].ch_name>> \o ChNames(chs, i + 1)

\* "Add the coordinate transformations" (lines 214-222).  info['dev_ctf_t'] is
\* the very object info['dev_head_t'] is, so setting its 'to' sets both; then
\* np.inv, which numpy does not have, raises AttributeError before 'trans' is
\* set.  The value is the info fields at the end of the section.
AddTransforms(dev_head_t, ctf_head_t) ==
    IF ~IsNone(dev_head_t) /\ ~IsNone(ctf_head_t)
    THEN LET shared == [Val(dev_head_t) EXCEPT !.to = Val(ctf_head_t).from]
         IN [err |-> "AttributeError",
             dev_head_t |-> Some(shared), ctf_head_t |-> ctf_head_t,
             dev_ctf_t |-> <<shared>>]
    ELSE [err |-> "none",
          dev_head_t |-> dev_head_t, ctf_head_t |-> ctf_head_t,
          dev_ctf_t |-> <<>>]

\* ------------------------------------------------------------------- state
VARIABLES
    mode,        \* the call: "read", "write" (then read back) or "ctf"
    pc,          \* the section of the called function about to run, or "done"
    err,         \* "none", or the class of the exception that ended the call
    tree,        \* read_meas_info's tree argument
    sized,       \* whether tree nodes are mappings (len(node) is defined)
    meas,        \* read_meas_info's locals: the measurement block ...
    meas_info,   \* ... the info block ...
    loc,         \* ... and the values read from it
    info,        \* the info dict being put together
    result,      \* None, or what read_meas_info returned
    winfo,       \* write_meas_info's info argument
    fid2,        \* the companion stream: "none" (never opened), "open", "closed"
    wloc,        \* write_meas_info's locals
    out,         \* the measurement-info block written to fid so far
    ctf_in,      \* read_ctf_comp's arguments: the node and the channels
    ctf_loc      \* read_ctf_comp's locals: the loop position and compdata

readVars == <<tree, sized, meas, meas_info, loc, info, result>>
writeVars == <<winfo, fid2, wloc, out>>
ctfVars == <<ctf_in, ctf_loc>>
vars == <<mode, pc, err, readVars, writeVars, ctfVars>>

\* The locals of read_meas_info before its first statement
LocInit ==
    [dev_head_t |-> None, ctf_head_t |-> None, meas_date |-> None,
     highpass |-> None, lowpass |-> None, nchan |-> None, sfreq |-> None,
     chs |-> <<>>, isotrak |-> None, dig |-> <<>>,
     acq_pars |-> None, acq_stim |-> None,
     projs |-> <<>>, comps |-> <<>>, bads |-> <<>>]

\* The locals of write_meas_info before its first statement; block is the
\* position of the copy loop in blocks
WlocInit == [have_hpi_result |-> FALSE, have_isotrak |-> FALSE, block |-> 1]

\* The locals of read_ctf_comp before its loop; k is the position in comps
CtfLocInit == [k |-> 1, compdata |-> <<>>]

\* ------------------------------------------------------------ input trees
Names == {"MEG1", "MEG2"}

\* The sequences over S of length at most n
SeqUpTo(S, n) == UNION {[1..k -> S] : k \in 0..n}

OptTag(kind, o) == IF IsNone(o) THEN <<>> ELSE <<Tag(kind, Val(o))>>

RECURSIVE ChTags(_, _)
ChTags(names, i) ==
    IF i > Len(names) THEN <<>>
    ELSE <<Tag("FIFF_CH_INFO", Ch(names[i], 7))>> \o ChTags(names, i + 1)

DevHead == Trans("FIFFV_COORD_DEVICE", "FIFFV_COORD_HEAD", "dev_head")
CtfHead == Trans("FIFFV_MNE_COORD_CTF_HEAD", "FIFFV_COORD_HEAD", "ctf_head")
MriHead == Trans("FIFFV_COORD_MRI", "FIFFV_COORD_HEAD", "mri_head")
HpiDevHead == Trans("FIFFV_COORD_DEVICE", "FIFFV_COORD_HEAD", "hpi_dev_head")
HpiCtfHead == Trans("FIFFV_MNE_COORD_CTF_HEAD", "FIFFV_COORD_HEAD", "hpi_ctf_head")

\* The transform tags of a directory: those of ts that are in the set have
TransTags(ts, have) ==
    LET one(t) == IF t \in have THEN <<Tag("FIFF_COORD_TRANS", t)>> ELSE <<>>
    IN one(ts[1]) \o one(ts[2]) \o one(ts[3])

\* The directory of an info block, in the order write_meas_info writes it
InfoDir(d) ==
    OptTag("FIFF_SFREQ", d.sfreq) \o OptTag("FIFF_HIGHPASS", d.highpass)
    \o OptTag("FIFF_LOWPASS", d.lowpass) \o OptTag("FIFF_NCHAN", d.nchan)
    \o OptTag("FIFF_MEAS_DATE", d.meas_date)
    \o TransTags(<<DevHead, CtfHead, MriHead>>, d.trans)
    \o ChTags(d.chs, 1)

DigPoint(n) == [kind |-> "cardinal", ident |-> n, coord_frame |-> "unset"]

RECURSIVE DigTags(_, _)
DigTags(n, i) ==
    IF i > n THEN <<>> ELSE <<Tag("FIFF_DIG_POINT", DigPoint(i))>> \o DigTags(n, i + 1)

RECURSIVE Blocks(_, _, _)
\* One childless block of a type per directory of a list
Blocks(block, dirs, i) ==
    IF i > Len(dirs) THEN <<>>
    ELSE <<Node(block, None, None, dirs[i], <<>>)>> \o Blocks(block, dirs, i + 1)

RECURSIVE Copies(_, _)
Copies(node, n) == IF n = 0 THEN <<>> ELSE <<node>> \o Copies(node, n - 1)

\* The tree of a file with p.nMeas measurement blocks, each with p.nInfo
\* info blocks
MkTree(p) ==
    LET hpi == Blocks("FIFFB_HPI_RESULT",
                      [i \in 1..Len(p.hpi) |->
                          TransTags(<<HpiDevHead, HpiCtfHead, MriHead>>, p.hpi[i])], 1)
        iso == Blocks("FIFFB_ISOTRAK",
                      [i \in 1..Len(p.iso) |-> DigTags(p.iso[i], 1)], 1)
        acq == Copies(Node("FIFFB_DACQ_PARS", None, None,
                           <<Tag("FIFF_DACQ_PARS", "pars"), Tag("FIFF_DACQ_STIM", "stim")>>,
                           <<>>), p.nAcq)
        proj == IF p.projs THEN <<Node("FIFFB_PROJ", None, None, <<>>,
                    <<Node("FIFFB_PROJ_ITEM", None, None,
                           <<Tag("FIFF_NAME", "proj1")>>, <<>>)>>)>>
                ELSE <<>>
        comp == IF p.comps THEN <<Node("FIFFB_MNE_CTF_COMP", None, None, <<>>,
                    <<Node("FIFFB_MNE_CTF_COMP_DATA", None, None,
                           <<Tag("FIFF_MNE_CTF_COMP_KIND", "comp1")>>, <<>>)>>)>>
                ELSE <<>>
        bad == IF p.bads THEN <<Node("FIFFB_MNE_BAD_CHANNELS", None, None,
                    <<Tag("FIFF_MNE_CH_NAME_LIST", <<"MEG2">>)>>, <<>>)>>
               ELSE <<>>
        infoNode == Node("FIFFB_MEAS_INFO", p.ids.info, p.ids.info_parent,
                         InfoDir(p.dir), hpi \o iso \o acq \o proj \o comp \o bad)
        measNode == Node("FIFFB_MEAS", p.ids.meas, p.ids.meas_parent, <<>>,
                         Copies(infoNode, p.nInfo))
    IN Node("FIFFB_ROOT", p.ids.file, None, <<>>, Copies(measNode, p.nMeas))

OptId(n) == {None, Some(Id(n))}

AllIds ==
    [info : OptId(11), info_parent : OptId(12), meas : OptId(21),
     meas_parent : OptId(22), file : OptId(31)]

AllDirs ==
    [sfreq : {None, Some(Hz(600)), Some(Hz(1001))},
     highpass : {None, Some(Hz(1))}, lowpass : {None, Some(Hz(40))},
     nchan : {None} \cup {Some(n) : n \in 0..MaxChs},
     meas_date : {None, Some(<<5, 6>>)},
     trans : SUBSET {DevHead, CtfHead, MriHead},
     chs : SeqUpTo(Names, MaxChs)]

\* The input every family of inputs starts from: a file read_meas_info reads
BaseDir ==
    [sfreq |-> Some(Hz(600)), highpass |-> None, lowpass |-> None,
     nchan |-> Some(2), meas_date |-> None, trans |-> {},
     chs |-> <<"MEG1", "MEG2">>]

BaseInput ==
    [nMeas |-> 1, nInfo |-> 1,
     ids |-> [info |-> None, info_parent |-> Some(Id(12)), meas |-> Some(Id(21)),
              meas_parent |-> None, file |-> Some(Id(31))],
     dir |-> BaseDir, hpi |-> <<>>, iso |-> <<1>>, nAcq |-> 0,
     projs |-> FALSE, comps |-> FALSE, bads |-> FALSE, sized |-> TRUE]

\* The trees read: each family varies what one section of read_meas_info
\* reads and leaves the rest as in BaseInput
ReadInputs ==
    {[BaseInput EXCEPT !.nMeas = a, !.nInfo = b] :
        a \in 0..MaxBlocks, b \in 0..MaxBlocks}
    \cup {[BaseInput EXCEPT !.dir = d] : d \in AllDirs}
    \cup {[BaseInput EXCEPT !.dir.trans = t, !.hpi = h] :
        t \in SUBSET {DevHead, CtfHead, MriHead},
        h \in SeqUpTo(SUBSET {HpiDevHead, HpiCtfHead}, MaxBlocks)}
    \cup {[BaseInput EXCEPT !.ids = i, !.dir.meas_date = md, !.sized = z] :
        i \in AllIds, md \in {None, Some(<<5, 6>>)}, z \in BOOLEAN}
    \cup {[BaseInput EXCEPT !.iso = s, !.sized = z] :
        s \in SeqUpTo(0..MaxDig, MaxBlocks), z \in BOOLEAN}
    \cup {[BaseInput EXCEPT !.nAcq = n, !.projs = pr, !.comps = c, !.bads = b] :
        n \in 0..MaxBlocks, pr \in BOOLEAN, c \in BOOLEAN, b \in BOOLEAN}

InitRead ==
    /\ mode = "read"
    /\ pc = "find_meas"
    /\ err = "none"
    /\ \E p \in ReadInputs : tree = MkTree(p) /\ sized = p.sized
    /\ meas = None
    /\ meas_info = None
    /\ loc = LocInit
    /\ info = None
    /\ result = None
    /\ winfo = None
    /\ fid2 = "none"
    /\ wloc = WlocInit
    /\ out = None
    /\ ctf_in = None
    /\ ctf_loc = CtfLocInit

\* The call ends with exception e
Fail(e) == pc' = "done" /\ err' = e

\* TheOne without its second check: the first block found is taken
TheOne_First(found) ==
    IF Len(found) = 0 THEN Raise("ValueError") ELSE Ok(found[1])

\* ---------------------------------------------- read_meas_info, the actions
\* The outcome of finding the one block of a type among the nodes found
TheOne(found) ==
    IF Len(found) = 0 THEN Raise("ValueError")
    ELSE IF Len(found) > 1 THEN Raise("ValueError")
    ELSE Ok(found[1])

\* meas = dir_tree_find(tree, FIFF.FIFFB_MEAS) and its checks
FindMeas ==
    /\ pc = "find_meas"
    /\ LET r == TheOne(dir_tree_find(tree, "FIFFB_MEAS"))
       IN IF r.err # "none"
          THEN Fail(r.err) /\ UNCHANGED meas
          ELSE pc' = "find_meas_info" /\ meas' = Some(r.val) /\ UNCHANGED err
    /\ UNCHANGED <<writeVars, ctfVars, mode, tree, sized, meas_info, loc, info, result>>

\* meas_info = dir_tree_find(meas, FIFF.FIFFB_MEAS_INFO) and its checks
FindMeasInfo ==
    /\ pc = "find_meas_info"
    /\ LET r == TheOne(dir_tree_find(Val(meas), "FIFFB_MEAS_INFO"))
       IN IF r.err # "none"
          THEN Fail(r.err) /\ UNCHANGED meas_info
          ELSE pc' = "scan" /\ meas_info' = Some(r.val) /\ UNCHANGED err
    /\ UNCHANGED <<writeVars, ctfVars, mode, tree, sized, meas, loc, info, result>>

\* "Read measurement info": the loop over the info block's directory
ScanInfo ==
    /\ pc = "scan"
    /\ LET s == ScanDir(ScanInit, Val(meas_info).directory, 1)
       IN loc' = [loc EXCEPT !.dev_head_t = s.dev_head_t, !.ctf_head_t = s.ctf_head_t,
                             !.meas_date = s.meas_date, !.highpass = s.highpass,
                             !.lowpass = s.lowpass, !.nchan = s.nchan,
                             !.sfreq = s.sfreq, !.chs = s.chs]
    /\ pc' = "check"
    /\ UNCHANGED <<writeVars, ctfVars, mode, err, tree, sized, meas, meas_info, info, result>>

\* "Check that we have everything we need"
CheckMandatory ==
    /\ pc = "check"
    /\ LET e == MandatoryError(loc)
       IN IF e # "none" THEN Fail(e) ELSE pc' = "hpi" /\ UNCHANGED err
    /\ UNCHANGED <<writeVars, ctfVars, mode, readVars>>

\* The transforms of the HPI result block
HpiResult ==
    /\ pc = "hpi"
    /\ LET s == HpiFallback(loc, Val(meas_info))
       IN loc' = [loc EXCEPT !.dev_head_t = s.dev_head_t, !.ctf_head_t = s.ctf_head_t]
    /\ pc' = "isotrak"
    /\ UNCHANGED <<writeVars, ctfVars, mode, err, tree, sized, meas, meas_info, info, result>>

\* "Locate the Polhemus data"
Isotrak ==
    /\ pc = "isotrak"
    /\ LET r == LocateIsotrak(dir_tree_find(Val(meas_info), "FIFFB_ISOTRAK"))
       IN IF r.err # "none"
          THEN Fail(r.err) /\ UNCHANGED loc
          ELSE pc' = "dig" /\ loc' = [loc EXCEPT !.isotrak = Some(r.val)]
               /\ UNCHANGED err
    /\ UNCHANGED <<writeVars, ctfVars, mode, tree, sized, meas, meas_info, info, result>>

\* dig = [] and the loop over the isotrak block's directory
Dig ==
    /\ pc = "dig"
    /\ LET r == CollectDig(Val(loc.isotrak), sized)
       IN IF r.err # "none"
          THEN Fail(r.err) /\ UNCHANGED loc
          ELSE pc' = "aux" /\ loc' = [loc EXCEPT !.dig = r.val] /\ UNCHANGED err
    /\ UNCHANGED <<writeVars, ctfVars, mode, tree, sized, meas, meas_info, info, result>>

\* The acquisition parameters, the projections, the compensation data and
\* the bad channels
Aux ==
    /\ pc = "aux"
    /\ LET a == AcqPars(Val(meas_info))
       IN loc' = [loc EXCEPT !.acq_pars = a.acq_pars, !.acq_stim = a.acq_stim,
                             !.projs = read_proj(Val(meas_info)),
                             !.comps = read_ctf_comp_info(Val(meas_info)),
                             !.bads = read_bad_channels(Val(meas_info))]
    /\ pc' = "ids"
    /\ UNCHANGED <<writeVars, ctfVars, mode, err, tree, sized, meas, meas_info, info, result>>

\* The info dict with the keys not set yet absent (None here).  A key that
\* holds a value which may be None holds Some(value): so do nchan, sfreq and
\* the filter bounds, and dig, a list or None.
InfoInit(file_id) ==
    [file_id |-> file_id, meas_id |-> None, meas_date |-> None,
     nchan |-> None, sfreq |-> None, highpass |-> None, lowpass |-> None,
     chs |-> <<>>, ch_names |-> <<>>,
     dev_head_t |-> None, ctf_head_t |-> None, dev_ctf_t |-> <<>>,
     dig |-> None, bads |-> <<>>, projs |-> <<>>, comps |-> <<>>,
     acq_pars |-> None, acq_stim |-> None]

\* "Put the data together": file_id, meas_id and meas_date
PutIds ==
    /\ pc = "ids"
    /\ LET r == MeasIdOf(Val(meas_info), Val(meas))
           start == InfoInit(tree.id)
       IN IF r.err # "none"
          THEN Fail(r.err) /\ info' = Some(start)
          ELSE /\ pc' = "fields"
               /\ info' = Some([start EXCEPT !.meas_id = r.val,
                                  !.meas_date = MeasDateOf(loc.meas_date, r.val)])
               /\ UNCHANGED err
    /\ UNCHANGED <<writeVars, ctfVars, mode, tree, sized, meas, meas_info, loc, result>>

\* nchan, sfreq, the filter bounds, the channels and their names
PutFields ==
    /\ pc = "fields"
    /\ info' = Some([Val(info) EXCEPT
                       !.nchan = loc.nchan, !.sfreq = loc.sfreq,
                       !.highpass = Some(HighpassOf(loc.highpass)),
                       !.lowpass = Some(LowpassOf(loc.lowpass, Val(loc.sfreq))),
                       !.chs = loc.chs, !.ch_names = ChNames(loc.chs, 1)])
    /\ pc' = "trans"
    /\ UNCHANGED <<writeVars, ctfVars, mode, err, tree, sized, meas, meas_info, loc, result>>

\* "Add the coordinate transformations"
PutTransforms ==
    /\ pc = "trans"
    /\ LET t == AddTransforms(loc.dev_head_t, loc.ctf_head_t)
       IN /\ info' = Some([Val(info) EXCEPT !.dev_head_t = t.dev_head_t,
                             !.ctf_head_t = t.ctf_head_t, !.dev_ctf_t = t.dev_ctf_t])
          /\ IF t.err # "none" THEN Fail(t.err) ELSE pc' = "return" /\ UNCHANGED err
    /\ UNCHANGED <<writeVars, ctfVars, mode, tree, sized, meas, meas_info, loc, result>>

\* "All kinds of auxliary stuff" and return info, meas
Return ==
    /\ pc = "return"
    /\ info' = Some([Val(info) EXCEPT !.dig = Some(loc.dig), !.bads = loc.bads,
                       !.projs = loc.projs, !.comps = loc.comps,
                       !.acq_pars = loc.acq_pars, !.acq_stim = loc.acq_stim])
    /\ result' = info'
    /\ pc' = "done"
    /\ UNCHANGED <<writeVars, ctfVars, mode, err, tree, sized, meas, meas_info, loc>>

\* ------------------------------------------------------- write_meas_info
\* "Blocks from the original"
blocks ==
    <<"FIFFB_SUBJECT", "FIFFB_HPI_MEAS", "FIFFB_HPI_RESULT", "FIFFB_ISOTRAK",
      "FIFFB_PROCESSING_HISTORY">>

\* start_block(fid, FIFF.FIFFB_MEAS_INFO) and fiff_open(info['filename'])
StartWrite ==
    /\ pc = "w_start"
    /\ out' = Node("FIFFB_MEAS_INFO", None, None, <<>>, <<>>)
    /\ IF Len(blocks) > 0 /\ ~IsNone(Val(winfo).filename)
       THEN fid2' = "open" /\ pc' = "w_copy"
       ELSE fid2' = fid2 /\ pc' = "w_general"
    /\ UNCHANGED <<ctfVars, mode, err, readVars, winfo, wloc>>

\* copy_tree(fid2, tree['id'], nodes, fid): the nodes are written to fid as
\* they are; reading them from a damaged companion file raises
copy_tree(companion, nodes, to) ==
    IF Len(nodes) > 0 /\ companion.damaged = Some(nodes[1].block)
    THEN Raise("FormatError")
    ELSE Ok([to EXCEPT !.children = @ \o nodes])

\* One pass of "for block in blocks"
CopyBlock ==
    /\ pc = "w_copy"
    /\ wloc.block <= Len(blocks)
    /\ LET block == blocks[wloc.block]
           companion == Val(Val(winfo).filename)
           nodes == dir_tree_find(companion.tree, block)
           r == copy_tree(companion, nodes, out)
       IN IF r.err # "none"
          THEN Fail(r.err) /\ UNCHANGED <<out, wloc>>
          ELSE /\ out' = r.val
               /\ wloc' = [wloc EXCEPT
                    !.have_hpi_result =
                        IF block = "FIFFB_HPI_RESULT" /\ Len(nodes) > 0 THEN TRUE ELSE @,
                    !.have_isotrak =
                        IF block = "FIFFB_ISOTRAK" /\ Len(nodes) > 0 THEN TRUE ELSE @,
                    !.block = @ + 1]
               /\ UNCHANGED <<pc, err>>
    /\ UNCHANGED <<ctfVars, mode, readVars, winfo, fid2>>

\* fid2.close(), after the loop
CloseCompanion ==
    /\ pc = "w_copy"
    /\ wloc.block > Len(blocks)
    /\ fid2' = "closed"
    /\ pc' = "w_general"
    /\ UNCHANGED <<ctfVars, mode, err, readVars, winfo, wloc, out>>

\* "General" and the coordinate transformations: the tags written
GeneralTags(w, have_hpi_result) ==
    <<Tag("FIFF_SFREQ", Val(w.sfreq)), Tag("FIFF_HIGHPASS", Val(w.highpass)),
      Tag("FIFF_LOWPASS", Val(w.lowpass)), Tag("FIFF_NCHAN", Val(w.nchan))>>
    \o OptTag("FIFF_MEAS_DATE", w.meas_date)
    \o (IF ~have_hpi_result
        THEN OptTag("FIFF_COORD_TRANS", w.dev_head_t)
             \o OptTag("FIFF_COORD_TRANS", w.ctf_head_t)
        ELSE <<>>)

WriteGeneral ==
    /\ pc = "w_general"
    /\ out' = [out EXCEPT !.directory = @ \o GeneralTags(Val(winfo), wloc.have_hpi_result)]
    /\ pc' = "w_chs"
    /\ UNCHANGED <<ctfVars, mode, err, readVars, winfo, fid2, wloc>>

\* "Scan numbers may have been messed up": info['chs'][k]['scanno'] = k + 1
Renumber(chs, nchan) ==
    [k \in 1..Len(chs) |-> IF k <= nchan THEN [chs[k] EXCEPT !.scanno = k] ELSE chs[k]]

RECURSIVE ChInfoTags(_, _, _)
ChInfoTags(chs, nchan, k) ==
    IF k > nchan THEN <<>>
    ELSE <<Tag("FIFF_CH_INFO", chs[k])>> \o ChInfoTags(chs, nchan, k + 1)

\* "Channel information"
WriteChannels ==
    /\ pc = "w_chs"
    /\ LET w == Val(winfo)
           chs == Renumber(w.chs, Val(w.nchan))
       IN IF Val(w.nchan) > Len(w.chs)
          THEN Fail("IndexError") /\ UNCHANGED <<out, winfo>>
          ELSE /\ winfo' = Some([w EXCEPT !.chs = chs])
               /\ out' = [out EXCEPT !.directory = @ \o ChInfoTags(chs, Val(w.nchan), 1)]
               /\ pc' = "w_blocks"
               /\ UNCHANGED err
    /\ UNCHANGED <<ctfVars, mode, readVars, fid2, wloc>>

RECURSIVE DigPointTags(_, _)
DigPointTags(dig, i) ==
    IF i > Len(dig) THEN <<>>
    ELSE <<Tag("FIFF_DIG_POINT", dig[i])>> \o DigPointTags(dig, i + 1)

\* "Polhemus data": the isotrak block written, if one is
PolhemusBlock(w, have_isotrak) ==
    IF ~IsNone(w.dig) /\ ~have_isotrak
    THEN <<Node("FIFFB_ISOTRAK", None, None, DigPointTags(Val(w.dig), 1), <<>>)>>
    ELSE <<>>

RECURSIVE ItemBlocks(_, _, _, _)
ItemBlocks(block, kind, items, i) ==
    IF i > Len(items) THEN <<>>
    ELSE <<Node(block, None, None, <<Tag(kind, items[i])>>, <<>>)>>
         \o ItemBlocks(block, kind, items, i + 1)

\* write_proj: the block read_proj reads the projections from
write_proj(projs) ==
    IF Len(projs) = 0 THEN <<>>
    ELSE <<Node("FIFFB_PROJ", None, None, <<>>,
                ItemBlocks("FIFFB_PROJ_ITEM", "FIFF_NAME", projs, 1))>>

\* write_ctf_comp: the block read_ctf_comp reads the compensation data from
write_ctf_comp(comps) ==
    IF Len(comps) = 0 THEN <<>>
    ELSE <<Node("FIFFB_MNE_CTF_COMP", None, None, <<>>,
                ItemBlocks("FIFFB_MNE_CTF_COMP_DATA", "FIFF_MNE_CTF_COMP_KIND", comps, 1))>>

\* "Bad channels"
BadsBlock(bads) ==
    IF Len(bads) > 0
    THEN <<Node("FIFFB_MNE_BAD_CHANNELS", None, None,
                <<Tag("FIFF_MNE_CH_NAME_LIST", bads)>>, <<>>)>>
    ELSE <<>>

\* The Polhemus data, the projectors, the compensation data, the bad
\* channels and end_block(fid, FIFF.FIFFB_MEAS_INFO)
WriteBlocks ==
    /\ pc = "w_blocks"
    /\ LET w == Val(winfo)
       IN out' = [out EXCEPT !.children =
                    @ \o PolhemusBlock(w, wloc.have_isotrak) \o write_proj(w.projs)
                      \o write_ctf_comp(w.comps) \o BadsBlock(w.bads)]
    /\ pc' = "w_end"
    /\ UNCHANGED <<ctfVars, mode, err, readVars, winfo, fid2, wloc>>

\* The file the written block is part of: the caller's measurement block,
\* which carries the measurement id, around the info block, under the file id
Enclose(block, w) ==
    Node("FIFFB_ROOT", w.file_id, None, <<>>,
         <<Node("FIFFB_MEAS", None, w.meas_id, <<>>, <<block>>)>>)

\* read_meas_info is called on the tree of the file written
ReadBack ==
    /\ pc = "w_end"
    /\ tree' = Enclose(out, Val(winfo))
    /\ pc' = "find_meas"
    /\ UNCHANGED <<ctfVars, mode, err, sized, meas, meas_info, loc, info, result, writeVars>>

WriteNext ==
    \/ StartWrite \/ CopyBlock \/ CloseCompanion \/ WriteGeneral
    \/ WriteChannels \/ WriteBlocks \/ ReadBack

\* ---------------------------------------------------------- records written
RECURSIVE ChRecords(_, _)
ChRecords(names, i) ==
    IF i > Len(names) THEN <<>>
    ELSE <<Ch(names[i], 7)>> \o ChRecords(names, i + 1)

RECURSIVE DigList(_, _)
DigList(n, i) ==
    IF i > n THEN <<>>
    ELSE <<[DigPoint(i) EXCEPT !.coord_frame = "FIFFV_COORD_HEAD"]>> \o DigList(n, i + 1)

\* dev_ctf_t of a record with the two transforms
DevCtf(dev_head_t, ctf_head_t) ==
    IF ~IsNone(dev_head_t) /\ ~IsNone(ctf_head_t)
    THEN <<Trans("FIFFV_COORD_DEVICE", "FIFFV_MNE_COORD_CTF_HEAD", "dev_ctf")>>
    ELSE <<>>

\* A companion file: its tree, and the block, if any, that cannot be read
Companion(has, damaged) ==
    [tree |-> Node("FIFFB_ROOT", Some(Id(41)), None, <<>>,
        (IF "FIFFB_SUBJECT" \in has
         THEN <<Node("FIFFB_SUBJECT", None, None, <<Tag("FIFF_SUBJ_ID", 1)>>, <<>>)>>
         ELSE <<>>)
        \o (IF "FIFFB_HPI_RESULT" \in has
            THEN <<Node("FIFFB_HPI_RESULT", None, None,
                        <<Tag("FIFF_COORD_TRANS", HpiDevHead)>>, <<>>)>>
            ELSE <<>>)
        \o (IF "FIFFB_ISOTRAK" \in has
            THEN <<Node("FIFFB_ISOTRAK", None, None, DigPointTags(DigList(1, 1), 1), <<>>)>>
            ELSE <<>>)),
     damaged |-> damaged]

Companions ==
    {Companion(has, d) :
        has \in SUBSET {"FIFFB_SUBJECT", "FIFFB_HPI_RESULT", "FIFFB_ISOTRAK"},
        d \in {None} \cup {Some(b) : b \in {"FIFFB_SUBJECT", "FIFFB_HPI_RESULT", "FIFFB_ISOTRAK"}}}

\* A measurement-info record with the given parts
Record(filename, names, meas_date, dev_head_t, ctf_head_t, dig, bads, projs, comps) ==
    [filename |-> filename,
     file_id |-> Some(Id(31)), meas_id |-> Some(Id(12)), meas_date |-> meas_date,
     nchan |-> Some(Len(names)), sfreq |-> Some(Hz(600)),
     highpass |-> Some(Hz(1)), lowpass |-> Some(Hz(40)),
     chs |-> ChRecords(names, 1), ch_names |-> names,
     dev_head_t |-> dev_head_t, ctf_head_t |-> ctf_head_t,
     dev_ctf_t |-> DevCtf(dev_head_t, ctf_head_t),
     dig |-> dig, bads |-> bads, projs |-> projs, comps |-> comps,
     acq_pars |-> None, acq_stim |-> None]

DigChoices == {None} \cup {Some(DigList(n, 1)) : n \in 0..MaxDig}

\* The records written: with a companion file, and without one
WriteInputs ==
    {Record(Some(c), <<"MEG1", "MEG2">>, Some(<<5, 6>>), dh, ch, dig, <<>>, <<>>, <<>>) :
        c \in {x \in Companions :
                 IsNone(x.damaged) \/ Len(dir_tree_find(x.tree, Val(x.damaged))) > 0},
        dh \in {None, Some(DevHead)}, ch \in {None, Some(CtfHead)}, dig \in DigChoices}
    \cup
    {Record(None, names, md, dh, ch, dig, bads, projs, comps) :
        names \in SeqUpTo(Names, MaxChs) \ {<<>>},
        md \in {None, Some(<<5, 6>>)},
        dh \in {None, Some(DevHead)}, ch \in {None, Some(CtfHead)},
        dig \in DigChoices, bads \in {<<>>, <<"MEG2">>},
        projs \in {<<>>, <<"proj1">>}, comps \in {<<>>, <<"comp1">>}}

InitWrite ==
    /\ mode = "write"
    /\ pc = "w_start"
    /\ err = "none"
    /\ tree = NoTree
    /\ sized \in BOOLEAN
    /\ meas = None
    /\ meas_info = None
    /\ loc = LocInit
    /\ info = None
    /\ result = None
    /\ winfo \in {Some(w) : w \in WriteInputs}
    /\ fid2 = "none"
    /\ wloc = WlocInit
    /\ out = None
    /\ ctf_in = None
    /\ ctf_loc = CtfLocInit

\* ------------------------------------------------ fiff/ctf.py: read_ctf_comp
\* has_tag(node, kind): a tag of the kind is in the node's own directory
has_tag(node, kind) == \E i \in 1..Len(node.directory) : node.directory[i].kind = kind

RECURSIVE FirstOfKind(_, _, _)
\* The first entry of a kind in a directory from position k on, or None
FirstOfKind(directory, kind, k) ==
    IF k > Len(directory) THEN None
    ELSE IF directory[k].kind = kind THEN Some(directory[k].data)
    ELSE FirstOfKind(directory, kind, k + 1)

\* find_tag(fid, node, kind): the data of the first tag of the kind, or None
find_tag(node, kind) == FirstOfKind(node.directory, kind, 1)

\* Attribute access d.name on a built-in dict: a dict has keys, not
\* attributes, whatever its keys are
DictAttr(d, name) == Raise("AttributeError")

RECURSIVE MatrixChild(_, _, _, _)
\* "Descend one level if necessary": the loop over the children, whose else
\* branch runs when no child was taken.  node.children(k) calls children.
MatrixChild(node, matkind, k, children_callable) ==
    IF k > Len(node.children) THEN Raise("ValueError")
    ELSE IF ~children_callable THEN Raise("TypeError")
    ELSE IF node.children[k].block = "FIFFB_MNE_NAMED_MATRIX"
            /\ has_tag(node.children[k], matkind)
         THEN Ok(node.children[k])
         ELSE MatrixChild(node, matkind, k + 1, children_callable)

\* read_named_matrix(fid, node, matkind).  A matrix is its shape and its
\* entries; a name list is kept as the list of its colon-separated names.
read_named_matrix(node, matkind, children_callable) ==
    LET at == IF node.block # "FIFFB_MNE_NAMED_MATRIX"
              THEN MatrixChild(node, matkind, 1, children_callable)
              ELSE IF ~has_tag(node, matkind)
                   THEN Raise("TypeError")   \* raise of a string
                   ELSE Ok(node)
    IN IF at.err # "none" THEN at
       ELSE LET n == at.val
                data == find_tag(n, matkind)
                nrow == find_tag(n, "FIFF_MNE_NROW")
                ncol == find_tag(n, "FIFF_MNE_NCOL")
            IN IF IsNone(data) THEN Raise("ValueError")
               ELSE IF ~IsNone(nrow) /\ Val(nrow) # Val(data).shape[1]
                    THEN Raise("ValueError")
               ELSE IF ~IsNone(ncol) /\ Val(ncol) # Val(data).shape[2]
                    THEN Raise("ValueError")
               ELSE Ok([nrow |-> Val(data).shape[1], ncol |-> Val(data).shape[2],
                        row_names |-> find_tag(n, "FIFF_MNE_ROW_NAMES"),
                        col_names |-> find_tag(n, "FIFF_MNE_COL_NAMES"),
                        data |-> Val(data)])

\* "Get the compensation kind and map it to a simple number"; the three
\* numbers are hex2dec of 47314252, 47324252 and 47334252
CompKind(ctfkind) ==
    IF ctfkind = 1194410578 THEN 1
    ELSE IF ctfkind = 1194476114 THEN 2
    ELSE IF ctfkind = 1194541650 THEN 3
    ELSE ctfkind

\* The calibrated flag of a compensation block, False when it has none
CalibratedOf(node) ==
    LET tag == find_tag(node, "FIFF_MNE_CTF_COMP_CALIBRATED")
    IN IF IsNone(tag) THEN FALSE ELSE Val(tag)

\* ch_names.count(name)
Count(ch_names, name) == Cardinality({i \in 1..Len(ch_names) : ch_names[i] = name})

\* A number as a fraction
Frac(n, d) == <<n, d>>

\* col_cals[col] for the column of a name: p is the NUMBER of channels of
\* the name, and chs[p] the channel at (0-based) position p
ColCal(chs, ch_names, name) ==
    LET p == Count(ch_names, name)
    IN IF p = 0 THEN Raise("ValueError")
       ELSE IF p > 1 THEN Raise("ValueError")
       ELSE IF p + 1 > Len(chs) THEN Raise("IndexError")
       ELSE Ok(Frac(1, chs[p + 1].range * chs[p + 1].cal))

\* row_cals[row] for the row of a name; the raise for a missing channel has
\* three arguments, the third no traceback
RowCal(chs, ch_names, name) ==
    LET p == Count(ch_names, name)
    IN IF p = 0 THEN Raise("TypeError")
       ELSE IF p > 1 THEN Raise("ValueError")
       ELSE IF p + 1 > Len(chs) THEN Raise("IndexError")
       ELSE Ok(Frac(chs[p + 1].range * chs[p + 1].cal, 1))

RECURSIVE Cals(_, _, _, _, _)
\* The scales of the names from position i on, or the first exception;
\* cols says whether they are columns
Cals(chs, ch_names, names, i, cols) ==
    IF i > Len(names) THEN Ok(<<>>)
    ELSE LET one == IF cols THEN ColCal(chs, ch_names, names[i])
                    ELSE RowCal(chs, ch_names, names[i])
         IN IF one.err # "none" THEN one
            ELSE LET rest == Cals(chs, ch_names, names, i + 1, cols)
                 IN IF rest.err # "none" THEN rest ELSE Ok(<<one.val>> \o rest.val)

\* "Calibrate...": the columns first, then the rows
Calibrate(mat, chs) ==
    LET ch_names == [q \in 1..Len(chs) |-> chs[q].ch_name]
        col_cals == Cals(chs, ch_names, Val(mat.col_names), 1, TRUE)
    IN IF col_cals.err # "none" THEN col_cals
       ELSE LET row_cals == Cals(chs, ch_names, Val(mat.row_names), 1, FALSE)
            IN IF row_cals.err # "none" THEN row_cals
               ELSE Ok([rowcals |-> row_cals.val, colcals |-> col_cals.val])

\* The loop body of read_ctf_comp for one compensation block: the record
\* appended to compdata, or the exception.  one and mat are built-in dicts.
ReadCompBlock(node, chs, children_callable) ==
    LET mat == read_named_matrix(node, "FIFF_MNE_CTF_COMP_DATA", children_callable)
        tag == find_tag(node, "FIFF_MNE_CTF_COMP_KIND")
    IN IF mat.err # "none" THEN mat
       ELSE IF IsNone(tag) THEN Raise("ValueError")
       ELSE LET one == [ctfkind |-> Val(tag), kind |-> -1]
            IN IF DictAttr(one, "ctfkind").err # "none"
               THEN DictAttr(one, "ctfkind")                     \* line 110
               ELSE LET calibrated == CalibratedOf(node)
                    IN IF DictAttr(mat.val, "shape").err # "none"
                       THEN DictAttr(mat.val, "shape")           \* line 130
                       ELSE IF calibrated
                            THEN Raise("NameError")              \* del row_cals
                            ELSE LET c == Calibrate(mat.val, chs)
                                 IN IF c.err # "none" THEN c
                                    ELSE Ok([ctfkind |-> Val(tag),
                                             kind |-> CompKind(Val(tag)),
                                             save_calibrated |-> calibrated,
                                             rowcals |-> c.val.rowcals,
                                             colcals |-> c.val.colcals,
                                             data |-> mat.val])

\* One pass of "for node in comps"
CompBlock ==
    /\ pc = "ctf_loop"
    /\ LET comps == dir_tree_find(Val(ctf_in).node, "FIFFB_MNE_CTF_COMP_DATA")
       IN /\ ctf_loc.k <= Len(comps)
          /\ LET r == ReadCompBlock(comps[ctf_loc.k], Val(ctf_in).chs,
                                    Val(ctf_in).children_callable)
             IN IF r.err # "none"
                THEN Fail(r.err) /\ UNCHANGED ctf_loc
                ELSE /\ ctf_loc' = [k |-> ctf_loc.k + 1,
                                    compdata |-> Append(ctf_loc.compdata, r.val)]
                     /\ UNCHANGED <<pc, err>>
    /\ UNCHANGED <<mode, readVars, writeVars, ctf_in>>

\* return compdata, after the loop
CtfReturn ==
    /\ pc = "ctf_loop"
    /\ ctf_loc.k > Len(dir_tree_find(Val(ctf_in).node, "FIFFB_MNE_CTF_COMP_DATA"))
    /\ pc' = "done"
    /\ UNCHANGED <<mode, err, readVars, writeVars, ctfVars>>

CtfNext == CompBlock \/ CtfReturn

\* ------------------------------------------------- compensation blocks read
CtfCh(name, range, cal) == [ch_name |-> name, range |-> range, cal |-> cal]

\* A compensation block: b.matrix says whether it holds its named matrix,
\* b.kind and b.calibrated are the tags' values or None
CompNode(b) ==
    Node("FIFFB_MNE_CTF_COMP_DATA", None, None,
         OptTag("FIFF_MNE_CTF_COMP_KIND", b.kind)
         \o OptTag("FIFF_MNE_CTF_COMP_CALIBRATED", b.calibrated),
         IF b.matrix
         THEN <<Node("FIFFB_MNE_NAMED_MATRIX", None, None,
                     <<Tag("FIFF_MNE_NROW", 1), Tag("FIFF_MNE_NCOL", 1),
                       Tag("FIFF_MNE_ROW_NAMES", <<b.row>>),
                       Tag("FIFF_MNE_COL_NAMES", <<b.col>>),
                       Tag("FIFF_MNE_CTF_COMP_DATA",
                           [shape |-> <<1, 1>>, entries |-> <<<<5>>>>])>>,
                     <<>>)>>
         ELSE <<>>)

CompBlocks ==
    [matrix : BOOLEAN, kind : {None, Some(1194410578), Some(4)},
     calibrated : {None, Some(FALSE), Some(TRUE)},
     row : {"MEG1", "REF"}, col : {"MEG2", "REF"}]

ChannelLists ==
    {<<CtfCh("MEG1", 2, 3), CtfCh("MEG2", 5, 7), CtfCh("MEG3", 11, 13)>>,
     <<CtfCh("MEG1", 2, 3), CtfCh("MEG2", 5, 7), CtfCh("MEG2", 11, 13)>>,
     <<CtfCh("MEG2", 5, 7)>>}

\* The nodes read: n copies of a compensation block under one node
CtfInputs ==
    {[node |-> Node("FIFFB_MNE_CTF_COMP", None, None, <<>>, Copies(CompNode(b), n)),
      chs |-> chs, children_callable |-> cc] :
        b \in CompBlocks, n \in 0..MaxBlocks, chs \in ChannelLists, cc \in BOOLEAN}

InitCtf ==
    /\ mode = "ctf"
    /\ pc = "ctf_loop"
    /\ err = "none"
    /\ tree = NoTree
    /\ sized = TRUE
    /\ meas = None
    /\ meas_info = None
    /\ loc = LocInit
    /\ info = None
    /\ result = None
    /\ winfo = None
    /\ fid2 = "none"
    /\ wloc = WlocInit
    /\ out = None
    /\ ctf_in \in {Some(c) : c \in CtfInputs}
    /\ ctf_loc = CtfLocInit

ReadNext ==
    \/ FindMeas \/ FindMeasInfo \/ ScanInfo \/ CheckMandatory \/ HpiResult
    \/ Isotrak \/ Dig \/ Aux \/ PutIds \/ PutFields \/ PutTransforms \/ Return

Init == InitRead \/ InitWrite \/ InitCtf
Next == ReadNext \/ WriteNext \/ CtfNext
Spec == Init /\ [][Next]_vars


\* ================================================================= claims
\* What the claims talk about, read off the input directly.

\* read_meas_info has been called (at once, or on the file written)
ReadStarted == mode = "read" \/ (mode = "write" /\ Len(tree.children) > 0)

\* The positions in a list of nodes of the blocks of a type
BlocksAt(nodes, block) == {i \in 1..Len(nodes) : nodes[i].block = block}

\* The number of measurement blocks of the file, and of info blocks of its
\* first measurement block
NumMeas == Cardinality(BlocksAt(tree.children, "FIFFB_MEAS"))
NumInfo ==
    IF NumMeas = 0 THEN 0
    ELSE LET m == CHOOSE i \in BlocksAt(tree.children, "FIFFB_MEAS") :
                     \A j \in BlocksAt(tree.children, "FIFFB_MEAS") : i <= j
         IN Cardinality(BlocksAt(tree.children[m].children, "FIFFB_MEAS_INFO"))

\* The info block read, once it is found, and its directory
InfoFound == ~IsNone(meas_info)
InfoBlock == Val(meas_info)
TagsAt(kind) == {i \in 1..Len(InfoBlock.directory) : InfoBlock.directory[i].kind = kind}
HasTag(kind) == TagsAt(kind) # {}
\* The value of the last tag of a kind in the info block's directory
TagValue(kind) ==
    InfoBlock.directory[CHOOSE i \in TagsAt(kind) : \A j \in TagsAt(kind) : j <= i].data
\* The channel records of the info block's directory, in directory order
ChannelTags == SelectSeq(InfoBlock.directory, LAMBDA e : e.kind = "FIFF_CH_INFO")

Returned == ~IsNone(result)
Ret == Val(result)

\* The first value of a list of ids that is not None, or None
FirstNonNull(ids) ==
    IF \A i \in 1..Len(ids) : IsNone(ids[i]) THEN None
    ELSE ids[CHOOSE i \in 1..Len(ids) :
                ~IsNone(ids[i]) /\ \A j \in 1..(i - 1) : IsNone(ids[j])]

\* C1: a tree whose number of measurement blocks is not one, or whose
\* measurement block has not exactly one info block, makes read_meas_info
\* end in a ValueError with no info returned.
C1_ExactlyOneBlock ==
    (ReadStarted /\ pc = "done" /\ (NumMeas # 1 \/ NumInfo # 1))
        => (err = "ValueError" /\ ~Returned)

\* A file with one measurement block holding two info blocks was refused.
C1_Witness ==
    /\ mode = "read" /\ pc = "done"
    /\ NumMeas = 1 /\ NumInfo = 2
    /\ err = "ValueError"

\* C7: an info block without a channel-count tag, without a sample-rate
\* tag, without a channel record, or whose channel records are not as many
\* as the declared count, is refused with a ValueError; a returned channel
\* list is the directory's channel records in order, nchan of them.
C7_MandatoryData ==
    /\ (ReadStarted /\ pc = "done" /\ InfoFound
         /\ (\/ ~HasTag("FIFF_NCHAN") \/ ~HasTag("FIFF_SFREQ")
             \/ Len(ChannelTags) = 0
             \/ Len(ChannelTags) # TagValue("FIFF_NCHAN")))
        => (err = "ValueError" /\ ~Returned)
    /\ Returned
        => /\ Ret.chs = [i \in 1..Len(ChannelTags) |-> ChannelTags[i].data]
           /\ Len(Ret.chs) = Val(Ret.nchan)

\* Two channels were returned in the order of the directory, MEG2 first.
C7_Witness ==
    /\ mode = "read" /\ Returned
    /\ Val(Ret.nchan) = 2
    /\ Ret.chs[1].ch_name = "MEG2" /\ Ret.chs[2].ch_name = "MEG1"

\* C8: the returned highpass is the highpass tag's value, or 0 without the
\* tag; the returned lowpass is the lowpass tag's value, or half the
\* returned sample rate; nchan and sfreq are the stored values.
C8_FilterDefaults ==
    Returned
        => /\ Val(Ret.highpass) =
                IF HasTag("FIFF_HIGHPASS") THEN TagValue("FIFF_HIGHPASS") ELSE 0
           /\ IF HasTag("FIFF_LOWPASS")
              THEN Val(Ret.lowpass) = TagValue("FIFF_LOWPASS")
              ELSE Val(Ret.lowpass) + Val(Ret.lowpass) = Val(Ret.sfreq)
           /\ Val(Ret.nchan) = TagValue("FIFF_NCHAN")
           /\ Val(Ret.sfreq) = TagValue("FIFF_SFREQ")

\* 600 Hz and no filter tags gave highpass 0 and lowpass 300 Hz.
C8_Witness ==
    /\ mode = "read" /\ Returned
    /\ ~HasTag("FIFF_HIGHPASS") /\ ~HasTag("FIFF_LOWPASS")
    /\ Val(Ret.sfreq) = Hz(600)
    /\ Val(Ret.highpass) = 0 /\ Val(Ret.lowpass) = Hz(300)

DirectTrans(from) ==
    LET at == {i \in TagsAt("FIFF_COORD_TRANS") :
                 /\ InfoBlock.directory[i].data.from = from
                 /\ InfoBlock.directory[i].data.to = "FIFFV_COORD_HEAD"}
    IN IF at = {} THEN None
       ELSE Some(InfoBlock.directory[CHOOSE i \in at : \A j \in at : j <= i].data)

\* The HPI result blocks under the info block, and the transform from a
\* frame to the head frame in the directory of the first, or None
HpiBlocks == SelectSeq(InfoBlock.children, LAMBDA n : n.block = "FIFFB_HPI_RESULT")
HpiTrans(from) ==
    LET d == HpiBlocks[1].directory
        at == {i \in 1..Len(d) : /\ d[i].kind = "FIFF_COORD_TRANS"
                                 /\ d[i].data.from = from
                                 /\ d[i].data.to = "FIFFV_COORD_HEAD"}
    IN IF at = {} THEN None
       ELSE Some(d[CHOOSE i \in at : \A j \in at : j <= i].data)

\* The section after the HPI result section is running or has run
AfterHpi ==
    \/ pc \in {"isotrak", "dig", "aux", "ids", "fields", "trans", "return"}
    \/ Returned

\* C9 as claimed: a device->head or CTF-head->head transform found in the
\* info block's own directory is the one returned, whatever the HPI result
\* block holds.
C9_DirectKept ==
    Returned
        => /\ ~IsNone(DirectTrans("FIFFV_COORD_DEVICE"))
                => Ret.dev_head_t = DirectTrans("FIFFV_COORD_DEVICE")
           /\ ~IsNone(DirectTrans("FIFFV_MNE_COORD_CTF_HEAD"))
                => Ret.ctf_head_t = DirectTrans("FIFFV_MNE_COORD_CTF_HEAD")

\* The transform of a frame after the HPI result section, as amended
AfterFallback(from) ==
    IF /\ IsNone(DirectTrans("FIFFV_COORD_DEVICE"))
          \/ IsNone(DirectTrans("FIFFV_MNE_COORD_CTF_HEAD"))
       /\ Len(HpiBlocks) = 1
       /\ ~IsNone(HpiTrans(from))
    THEN HpiTrans(from)
    ELSE DirectTrans(from)

\* C9 as amended: the HPI result block is read only when at least one of
\* the two transforms is missing from the direct scan and there is exactly
\* one HPI result block; then each of the two transforms that the HPI result
\* block holds replaces the value of the direct scan, also the one that the
\* direct scan had found; in every other case the direct scan's value stays.
\* A returned info holds these values.
C9_FallbackReplaces ==
    /\ AfterHpi
        => /\ loc.dev_head_t = AfterFallback("FIFFV_COORD_DEVICE")
           /\ loc.ctf_head_t = AfterFallback("FIFFV_MNE_COORD_CTF_HEAD")
    /\ Returned
        => /\ Ret.dev_head_t = AfterFallback("FIFFV_COORD_DEVICE")
           /\ Ret.ctf_head_t = AfterFallback("FIFFV_MNE_COORD_CTF_HEAD")

\* The direct scan found device->head, CTF-head->head was missing, and the
\* returned device->head is the HPI result block's.
C9_Witness ==
    /\ mode = "read" /\ Returned
    /\ DirectTrans("FIFFV_COORD_DEVICE") = Some(DevHead)
    /\ IsNone(DirectTrans("FIFFV_MNE_COORD_CTF_HEAD"))
    /\ Ret.dev_head_t = Some(HpiDevHead)

\* The isotrak blocks under the info block
IsotrakBlocks == SelectSeq(InfoBlock.children, LAMBDA n : n.block = "FIFFB_ISOTRAK")

\* The section after "Locate the Polhemus data" is running or has run
AfterIsotrak ==
    \/ pc \in {"dig", "aux", "ids", "fields", "trans", "return"}
    \/ Returned

\* C4: read_meas_info goes on past the Polhemus section only with exactly
\* one isotrak block under the info block, and a returned dig holds every
\* digitization point of that block's directory, in order, in the head frame.
C4_ExactlyOneIsotrak ==
    /\ AfterIsotrak => Len(IsotrakBlocks) = 1
    /\ Returned
        => LET points == SelectSeq(IsotrakBlocks[1].directory,
                                   LAMBDA e : e.kind = "FIFF_DIG_POINT")
           IN Ret.dig = Some([i \in 1..Len(points) |->
                                [points[i].data EXCEPT !.coord_frame = "FIFFV_COORD_HEAD"]])

\* The fields "nchan" ... of info are set: the transform section is next or ran
AfterFields == ~IsNone(info) /\ ~IsNone(Val(info).nchan)

\* C10: with both transforms present read_meas_info returns an info whose
\* dev_head_t still leads to the head frame with the matrix of the file and
\* whose dev_ctf_t is another record, leading to the CTF head frame; with
\* one of them absent no dev_ctf_t is computed.
C10_DevHeadUnchanged ==
    (pc = "done" /\ AfterFields)
        => IF ~IsNone(loc.dev_head_t) /\ ~IsNone(loc.ctf_head_t)
           THEN /\ err = "none" /\ Returned
                /\ Ret.dev_head_t = loc.dev_head_t
                /\ Val(Ret.dev_head_t).to = "FIFFV_COORD_HEAD"
                /\ Len(Ret.dev_ctf_t) = 1
                /\ Ret.dev_ctf_t[1].to = "FIFFV_MNE_COORD_CTF_HEAD"
           ELSE Returned => Ret.dev_ctf_t = <<>>

\* The record read back from a written one: the record without its file name
ReadBackOf(w) == [f \in (DOMAIN w) \ {"filename"} |-> w[f]]

\* C2: read_meas_info on the file write_meas_info wrote returns the record
\* written, its channels' scan numbers 1..N in channel order.
C2_RoundTrip ==
    (mode = "write" /\ ReadStarted /\ pc = "done")
        => /\ err = "none"
           /\ result = Some(ReadBackOf(Val(winfo)))
           /\ \A k \in 1..Len(Ret.chs) : Ret.chs[k].scanno = k

\* C6: when write_meas_info has ended, by its return or by an exception,
\* the companion stream is not open.
C6_CompanionClosed ==
    (mode = "write" /\ (ReadStarted \/ pc \in {"w_end", "done"})) => fid2 # "open"

\* The first compensation block read_ctf_comp is given, its named matrix and
\* the channels of a name
CompBlock1 == Val(ctf_in).node.children[1]
CompMatrix == CompBlock1.children[1]
Named(name) == {q \in 1..Len(Val(ctf_in).chs) : Val(ctf_in).chs[q].ch_name = name}
ChannelOf(name) == Val(ctf_in).chs[CHOOSE q \in Named(name) : TRUE]

\* C5: read_ctf_comp on compensation blocks that are not calibrated (on
\* nodes whose children read_named_matrix can reach) ends in a ValueError
\* when a row or column name is the name of no channel or of several, and
\* otherwise returns, for each block, the column scale 1/(range*cal) and the
\* row scale range*cal of the channel of that name.
C5_ScalesByName ==
    (/\ mode = "ctf" /\ pc = "done"
     /\ Val(ctf_in).children_callable
     /\ Len(Val(ctf_in).node.children) > 0
     /\ Len(CompBlock1.children) = 1
     /\ has_tag(CompBlock1, "FIFF_MNE_CTF_COMP_KIND")
     /\ IsNone(find_tag(CompBlock1, "FIFF_MNE_CTF_COMP_CALIBRATED"))
           \/ find_tag(CompBlock1, "FIFF_MNE_CTF_COMP_CALIBRATED") = Some(FALSE))
        => LET row == Val(find_tag(CompMatrix, "FIFF_MNE_ROW_NAMES"))[1]
               col == Val(find_tag(CompMatrix, "FIFF_MNE_COL_NAMES"))[1]
           IN IF Cardinality(Named(row)) = 1 /\ Cardinality(Named(col)) = 1
              THEN /\ err = "none"
                   /\ Len(ctf_loc.compdata) = Len(Val(ctf_in).node.children)
                   /\ \A i \in 1..Len(ctf_loc.compdata) :
                        /\ ctf_loc.compdata[i].colcals =
                             <<Frac(1, ChannelOf(col).range * ChannelOf(col).cal)>>
                        /\ ctf_loc.compdata[i].rowcals =
                             <<Frac(ChannelOf(row).range * ChannelOf(row).cal, 1)>>
              ELSE err = "ValueError"

=============================================================================
